---- MODULE Spec2Model ----
(***************************************************************************)
(* POAP2RSS: the Lambda handler of src/poap2rss_lambda.py as a state       *)
(* machine.  A request is served from the DynamoDB cache or generated from *)
(* the POAP API (event details, event claims, address collection), then    *)
(* rendered to RSS/XML and cached.                                         *)
(*                                                                         *)
(* Conventions.                                                            *)
(*  - Time is counted in minutes since an arbitrary origin.                *)
(*  - A Python str is a sequence of one-character strings.  A timestamp    *)
(*    string is such a sequence whose date-time body 'YYYY-MM-DDTHH:MM:SS' *)
(*    is one token (a key of WallClock) and whose 'HH:MM' offset is one    *)
(*    token (a key of OffsetMinutes).                                      *)
(*  - A Python dict is a function whose DOMAIN is the set of keys present. *)
(*  - A call that may raise returns a record with field exc ("none" when   *)
(*    it returns normally, else the name of the exception class).          *)
(***************************************************************************)
EXTENDS Integers, Sequences, FiniteSets, TLC

VARIABLES now, cache, response, req, probe

vars == <<now, cache, response, req, probe>>

-----------------------------------------------------------------------------
(* Program constants                                                       *)

CACHE_DURATION_MINUTES == 15
MAX_CLAIMS_COUNT == 20
INACTIVITY_THRESHOLD_WEEKS == 4

MinutesPerDay == 24 * 60
MinutesPerWeek == 7 * MinutesPerDay

-----------------------------------------------------------------------------
(* Python str operations used by the program                               *)

EndsWith(s, suf) ==
    /\ Len(s) >= Len(suf)
    /\ SubSeq(s, Len(s) - Len(suf) + 1, Len(s)) = suf

StartsWith(s, pre) ==
    /\ Len(s) >= Len(pre)
    /\ SubSeq(s, 1, Len(pre)) = pre

Contains(s, sub) ==
    \E i \in 1..(Len(s) - Len(sub) + 1) : SubSeq(s, i, i + Len(sub) - 1) = sub

Drop(s, n) == SubSeq(s, n + 1, Len(s))

RECURSIVE Replace(_, _, _)
Replace(s, old, new) ==
    IF s = <<>> THEN <<>>
    ELSE IF StartsWith(s, old) THEN new \o Replace(Drop(s, Len(old)), old, new)
    ELSE <<Head(s)>> \o Replace(Tail(s), old, new)

-----------------------------------------------------------------------------
(* Timestamps                                                              *)

\* The instant at which the modelled clock starts.
StartNow == 6 * MinutesPerWeek

\* Date-time bodies that occur in upstream data, with the wall-clock minute
\* each one denotes: D_old is six weeks before StartNow, D_edge turns four
\* weeks old eight minutes after StartNow, D_new is 100 minutes old.
WallClock ==
    [D_old  |-> 0,
     D_edge |-> StartNow + 8 - 4 * MinutesPerWeek,
     D_new  |-> StartNow - 100]

OffsetMinutes == [o0000 |-> 0, o0200 |-> 120]

\* The UTC offset of the process's local timezone (naive datetime.timestamp()).
LocalUtcOffset == 0

NoDate == [exc |-> "ValueError", wall |-> 0, aware |-> FALSE, off |-> 0]

\* datetime.fromisoformat on a str: a bare body is a naive datetime, a body
\* with a signed offset an aware one, anything else raises ValueError.
fromisoformat(s) ==
    IF Len(s) = 1 /\ s[1] \in DOMAIN WallClock
    THEN [exc |-> "none", wall |-> WallClock[s[1]], aware |-> FALSE, off |-> 0]
    ELSE IF /\ Len(s) = 3
            /\ s[1] \in DOMAIN WallClock
            /\ s[2] \in {"+", "-"}
            /\ s[3] \in DOMAIN OffsetMinutes
    THEN [exc |-> "none", wall |-> WallClock[s[1]], aware |-> TRUE,
          off |-> IF s[2] = "+" THEN OffsetMinutes[s[3]] ELSE 0 - OffsetMinutes[s[3]]]
    ELSE NoDate

\* dt.replace(tzinfo=timezone.utc)
replace_tzinfo_utc(dt) == [dt EXCEPT !.aware = TRUE, !.off = 0]

\* dt.timestamp(), in minutes
timestamp(dt) == IF dt.aware THEN dt.wall - dt.off ELSE dt.wall - LocalUtcOffset

PlusZero == <<"+", "o0000">>

\* A JSON value of a timestamp field: a string, or a number.
JStr(s) == [t |-> "str", s |-> s]
JNum == [t |-> "num", s |-> <<>>]
Truthy(v) == v.t = "num" \/ v.s # <<>>

\* What a ladder yields for a parsed datetime: [exc, ts, wall], wall being the
\* wall-clock reading that strftime prints.
Stamp(dt) ==
    [exc |-> dt.exc, ts |-> IF dt.exc = "none" THEN timestamp(dt) ELSE 0, wall |-> dt.wall]

\* A value that is no str has no endswith.
NotStr == [exc |-> "AttributeError", ts |-> 0, wall |-> 0]

\* .replace(tzinfo=timezone.utc) of what fromisoformat returned
AssumeUtc(d) == IF d.exc = "none" THEN replace_tzinfo_utc(d) ELSE d

\* if dt.tzinfo is None: dt = dt.replace(tzinfo=timezone.utc)
UtcIfNaive(d) == IF d.exc = "none" /\ ~d.aware THEN replace_tzinfo_utc(d) ELSE d

\* The ladder of _add_event_description_item.
ParseEventDate(v) ==
    IF v.t # "str" THEN NotStr
    ELSE IF EndsWith(v.s, <<"Z">>)
    THEN Stamp(fromisoformat(Replace(v.s, <<"Z">>, PlusZero)))
    ELSE IF Contains(v.s, <<"+">>)
    THEN Stamp(fromisoformat(v.s))
    ELSE Stamp(AssumeUtc(fromisoformat(v.s)))

\* The ladder of _add_claim_item.
ParseClaimCreated(v) ==
    IF v.t # "str" THEN NotStr
    ELSE IF EndsWith(v.s, <<"Z">>)
    THEN Stamp(fromisoformat(Replace(v.s, <<"Z">>, PlusZero)))
    ELSE IF Contains(v.s, <<"+">>) \/ EndsWith(v.s, <<"U", "T", "C">>)
    THEN Stamp(UtcIfNaive(fromisoformat(Replace(v.s, <<"U", "T", "C">>, <<>>))))
    ELSE Stamp(AssumeUtc(fromisoformat(v.s)))

\* The ladder of _check_and_add_inactivity_alert.
ParseInactivityCreated(v) ==
    IF v.t # "str" THEN NotStr
    ELSE IF EndsWith(v.s, <<"Z">>)
    THEN Stamp(fromisoformat(Replace(v.s, <<"Z">>, PlusZero)))
    ELSE IF Contains(v.s, <<"+">>) \/ EndsWith(v.s, <<"U", "T", "C">>)
    THEN Stamp(UtcIfNaive(fromisoformat(Replace(v.s, <<"U", "T", "C">>, <<>>))))
    ELSE Stamp(AssumeUtc(fromisoformat(v.s)))

\* The single step of _add_address_poap_item; a naive datetime's timestamp
\* is taken in the local timezone.
ParseAddressCreated(v) ==
    IF v.t # "str" THEN NotStr
    ELSE Stamp(fromisoformat(Replace(v.s, <<"Z">>, PlusZero)))

\* email.utils.formatdate(timeval=ts, localtime=False, usegmt=True)
formatdate(ts) == [fmt |-> "RFC2822-GMT", t |-> ts]

-----------------------------------------------------------------------------
(* XML rendering of a description                                          *)

\* ElementTree.tostring escapes the text of an element.
RECURSIVE escape_cdata(_)
escape_cdata(s) ==
    IF s = <<>> THEN <<>>
    ELSE (CASE Head(s) = "&" -> <<"&", "a", "m", "p", ";">>
            [] Head(s) = "<" -> <<"&", "l", "t", ";">>
            [] Head(s) = ">" -> <<"&", "g", "t", ";">>
            [] OTHER -> <<Head(s)>>) \o escape_cdata(Tail(s))

\* minidom.parseString resolves the predefined entities of a text node.
RECURSIVE parse_text(_)
parse_text(s) ==
    IF s = <<>> THEN <<>>
    ELSE IF StartsWith(s, <<"&", "a", "m", "p", ";">>) THEN <<"&">> \o parse_text(Drop(s, 5))
    ELSE IF StartsWith(s, <<"&", "l", "t", ";">>) THEN <<"<">> \o parse_text(Drop(s, 4))
    ELSE IF StartsWith(s, <<"&", "g", "t", ";">>) THEN <<">">> \o parse_text(Drop(s, 4))
    ELSE <<Head(s)>> \o parse_text(Tail(s))

\* html.entities.html5, restricted to the names spelled with the letters
\* a, m, p, x, l, t, g that occur in modelled text.
Html5 ==
    { <<<<"a", "m", "p">>, <<"&">>>>,
      <<<<"a", "m", "p", ";">>, <<"&">>>>,
      <<<<"l", "t">>, <<"<">>>>,
      <<<<"l", "t", ";">>, <<"<">>>>,
      <<<<"g", "t">>, <<">">>>>,
      <<<<"g", "t", ";">>, <<">">>>>,
      <<<<"a", "p", ";">>, <<"U+2248">>>>,
      <<<<"m", "a", "p", ";">>, <<"U+21A6">>>>,
      <<<<"m", "p", ";">>, <<"U+2213">>>>,
      <<<<"p", "m", ";">>, <<"U+00B1">>>>,
      <<<<"x", "m", "a", "p", ";">>, <<"U+27FC">>>> }

InHtml5(name) == \E e \in Html5 : e[1] = name
Html5Value(name) == (CHOOSE e \in Html5 : e[1] = name)[2]

\* Whether a proper prefix of at least two characters is a name, and the
\* longest such prefix.
HasNamePrefix(name) == \E x \in 2..(Len(name) - 1) : InHtml5(SubSeq(name, 1, x))

LongestNamePrefix(name) ==
    CHOOSE x \in 2..(Len(name) - 1) :
        /\ InHtml5(SubSeq(name, 1, x))
        /\ \A z \in (x + 1)..(Len(name) - 1) : ~InHtml5(SubSeq(name, 1, z))

PrefixReplaced(name, x) == Html5Value(SubSeq(name, 1, x)) \o Drop(name, x)

\* html._replace_charref for a named reference: the name itself, else its
\* longest prefix that is a name, else the text as it stands.
replace_charref(name) ==
    IF InHtml5(name) THEN Html5Value(name)
    ELSE IF HasNamePrefix(name) THEN PrefixReplaced(name, LongestNamePrefix(name))
    ELSE <<"&">> \o name

\* The characters that end the name of a character reference.
CharrefStop == {" ", "<", "&", "#", ";"}

RECURSIVE NameRun(_)
NameRun(s) ==
    IF s = <<>> \/ Head(s) \in CharrefStop THEN 0 ELSE 1 + NameRun(Tail(s))

\* The length of the reference after the '&' that starts s: the n characters
\* of its name and the ';' that may follow.
RefLen(s, n) == IF Len(s) >= n + 2 /\ s[n + 2] = ";" THEN n + 1 ELSE n

\* html.unescape: every '&name' or '&name;' is replaced by replace_charref.
RECURSIVE html_unescape(_)
UnescapeRef(s, m) == replace_charref(SubSeq(s, 2, m + 1)) \o html_unescape(Drop(s, m + 1))

html_unescape(s) ==
    IF s = <<>> THEN <<>>
    ELSE IF Head(s) # "&" THEN <<Head(s)>> \o html_unescape(Tail(s))
    ELSE IF NameRun(Tail(s)) = 0 THEN <<"&">> \o html_unescape(Tail(s))
    ELSE UnescapeRef(s, RefLen(s, NameRun(Tail(s))))

\* createCDATASection(text), written by toprettyxml: ']]>' raises ValueError.
CdataSection(text) ==
    [exc |-> IF Contains(text, <<"]", "]", ">">>) THEN "ValueError" ELSE "none",
     cdata |-> TRUE, data |-> text]

\* Lines 516-521 for the text of a parsed description element; an element
\* without text has no child node and is left alone.
Rewrapped(parsed) ==
    IF parsed = <<>> THEN [exc |-> "none", cdata |-> FALSE, data |-> <<>>]
    ELSE CdataSection(html_unescape(parsed))

\* _format_xml on one description element: serialise, parse, unescape, wrap
\* in a CDATA section and write it.
format_description(body) == Rewrapped(parse_text(escape_cdata(body)))

\* What an XML parser reads back as the text of a rendered description.
description_text(rendered) == rendered.data

-----------------------------------------------------------------------------
(* Feed items                                                              *)
(*                                                                         *)
(* An HTML template is the sequence of its interpolated values, character  *)
(* by character, and of the literal text between them.  The character that *)
(* follows an interpolated value is a token of its own; the rest of each   *)
(* literal run is one token, which the XML layer carries unchanged (the    *)
(* program's literals hold no '&' and no ']').  The whitespace between the *)
(* lines of a template is left out.                                        *)

Get(d, k, default) == IF k \in DOMAIN d THEN d[k] ELSE default

\* dict.get(k) is present and truthy, for a text value.
HasText(d, k) == k \in DOMAIN d /\ d[k] # <<>>

\* dict.get(k) is present and truthy, for a timestamp value.
HasStamp(d, k) == k \in DOMAIN d /\ Truthy(d[k])

ImgSize == " width=\"500\" height=\"500\" />"

\* event_details.get('id', default) as text
EventIdText(event_details, default) ==
    IF "id" \in DOMAIN event_details THEN <<ToString(event_details.id)>> ELSE <<default>>

DropUrl(idText) == <<"https://poap.gallery/drops/">> \o idText
TokenUrl(token_id) == <<"https://collectors.poap.xyz/token/">> \o token_id
ScanUrl(address) == <<"https://collectors.poap.xyz/scan/">> \o address
\* A notice URL that leaves the week count out, which the claim about the
\* notice's guid must tell apart from the program's.
InactiveUrlOfEvent(idText, weeks) ==
    <<"https://www.poap2rss.com/inactive.html?event=">> \o idText

InactiveUrl(idText, weeks) ==
    <<"https://www.poap2rss.com/inactive.html?event=">> \o idText
        \o <<"&", "week=", ToString(weeks)>>

\* s[:6] + "..." + s[-4:]
Elide(s) ==
    SubSeq(s, 1, IF Len(s) < 6 THEN Len(s) ELSE 6) \o <<"...">>
        \o SubSeq(s, IF Len(s) < 4 THEN 1 ELSE Len(s) - 3, Len(s))

\* _add_channel_metadata; t is the clock reading of line 270.
add_channel_metadata(event_details, t) ==
    LET event_name == Get(event_details, "name", <<"Unknown Event">>)
        event_id == EventIdText(event_details, "unknown")
    IN [title |-> <<"POAP: ">> \o event_name,
        description |-> <<"Activity for", " ">> \o event_name \o <<" ", "POAP drop.">>,
        link |-> DropUrl(event_id),
        lastBuildDate |-> formatdate(t),
        self |-> <<"https://app.poap2rss.com/event/">> \o event_id]

\* _add_address_channel_metadata; _get_ens_name always returns None.
add_address_channel_metadata(address, t) ==
    LET display_name == Elide(address)
    IN [title |-> <<"POAP: ">> \o display_name \o <<" ", "Collection">>,
        description |-> <<"Latest POAP tokens for", " ">> \o display_name \o <<".">>,
        link |-> ScanUrl(address),
        lastBuildDate |-> formatdate(t),
        self |-> <<"https://app.poap2rss.com/address/">> \o address]

DateFields == <<"start_date", "end_date", "event_date", "created_date", "expiry_date">>

\* The loop of lines 331-349 from field i on: [exc, found, ts].  ValueError
\* and TypeError move on to the next field, anything else propagates.
RECURSIVE EventTimestamp(_, _)
AfterEventDate(event_details, i, r) ==
    IF r.exc = "none" THEN [exc |-> "none", found |-> TRUE, ts |-> r.ts]
    ELSE IF r.exc \in {"ValueError", "TypeError"} THEN EventTimestamp(event_details, i + 1)
    ELSE [exc |-> r.exc, found |-> FALSE, ts |-> 0]

EventTimestamp(event_details, i) ==
    IF i > Len(DateFields) THEN [exc |-> "none", found |-> FALSE, ts |-> 0]
    ELSE IF ~HasStamp(event_details, DateFields[i])
    THEN EventTimestamp(event_details, i + 1)
    ELSE AfterEventDate(event_details, i, ParseEventDate(event_details[DateFields[i]]))

\* The description of lines 308-320.
EventHtml(event_details) ==
    <<"<h3>">> \o Get(event_details, "name", <<"Unknown Event">>) \o <<"<", "/h3><p>">>
        \o Get(event_details, "description", <<"No description available">>)
        \o <<"<", "/p>">>
        \o (IF HasText(event_details, "image_url")
            THEN <<"<img src=\"">> \o event_details.image_url \o <<"\"", ImgSize>>
            ELSE <<>>)
        \o (IF HasText(event_details, "city")
            THEN <<"<p><strong>Location:</strong> ">> \o event_details.city
                    \o (IF HasText(event_details, "country")
                        THEN <<",", " ">> \o event_details.country ELSE <<>>)
                    \o <<"<", "/p>">>
            ELSE <<>>)

\* The item of _add_event_description_item, stamp being what the loop over
\* the date fields gave.
EventItem(event_details, stamp, t) ==
    [exc |-> stamp.exc,
     item |-> [kind |-> "event",
               title |-> Get(event_details, "name", <<"Unknown Event">>)
                            \o <<" ", "Event Details">>,
               description |-> EventHtml(event_details),
               guid |-> DropUrl(EventIdText(event_details, "unknown")),
               link |-> DropUrl(EventIdText(event_details, "unknown")),
               pubDate |-> formatdate(IF stamp.found THEN stamp.ts ELSE t)]]

\* _add_event_description_item; t is the clock reading of line 354.
add_event_description_item(event_details, t) ==
    EventItem(event_details, EventTimestamp(event_details, 1), t)

\* ens_name if ens_name else the elided owner address
DisplayName(owner) ==
    IF Get(owner, "ens", <<>>) # <<>> THEN owner.ens
    ELSE Elide(Get(owner, "id", <<"unknown">>))

NoDict == [x \in {} |-> <<>>]

\* The description of lines 372-377; event_details["image_url"] raises
\* KeyError when the key is missing.
ClaimHtml(poap, event_details) ==
    <<"<p><strong><a href=\"">>
        \o ScanUrl(Get(Get(poap, "owner", NoDict), "id", <<"unknown">>)) \o <<"\"", ">">>
        \o DisplayName(Get(poap, "owner", NoDict))
        \o <<"<", "/a></strong> claimed POAP <a href=\"">>
        \o TokenUrl(Get(poap, "id", <<"unknown">>)) \o <<"\"", ">">>
        \o Get(poap, "id", <<"unknown">>)
        \o <<"<", "/a> for <strong><a href=\"">>
        \o DropUrl(EventIdText(event_details, "Unknown Event")) \o <<"\"", ">">>
        \o Get(event_details, "name", <<"Unknown Event">>)
        \o <<"<", "/a></strong></p><p><img src=\"">> \o event_details.image_url
        \o <<"\"", ImgSize, "<", "/p>">>

\* The item of _add_claim_item, parsed being what the ladder gave for a
\* truthy 'created' (a ValueError otherwise stands for "no date").
ClaimItem(poap, event_details, parsed, t) ==
    IF "image_url" \notin DOMAIN event_details
    THEN [exc |-> "KeyError", item |-> [kind |-> "claim"]]
    ELSE IF parsed.exc \notin {"none", "ValueError"}
    THEN [exc |-> parsed.exc, item |-> [kind |-> "claim"]]
    ELSE [exc |-> "none",
          item |-> [kind |-> "claim",
                    title |-> <<>>,
                    author |-> DisplayName(Get(poap, "owner", NoDict)),
                    description |-> ClaimHtml(poap, event_details),
                    guid |-> TokenUrl(Get(poap, "id", <<"unknown">>)),
                    link |-> TokenUrl(Get(poap, "id", <<"unknown">>)),
                    pubDate |-> formatdate(IF parsed.exc = "none" THEN parsed.ts ELSE t)]]

NoStamp == [exc |-> "ValueError", ts |-> 0, wall |-> 0]

\* _add_claim_item; t is the clock reading of lines 402 and 404.  The
\* description is formatted before the date is parsed.
add_claim_item(poap, event_details, t) ==
    ClaimItem(poap, event_details,
              IF HasStamp(poap, "created") THEN ParseClaimCreated(poap.created) ELSE NoStamp,
              t)

\* The description of lines 417-420.
AddressHtml(poap) ==
    <<"<p>Collected POAP <a href=\"">>
        \o TokenUrl(Get(poap, "tokenId", <<"unknown">>)) \o <<"\"", ">">>
        \o Get(poap, "tokenId", <<"unknown">>)
        \o <<"<", "/a> for <strong><a href=\"">>
        \o DropUrl(Get(Get(poap, "event", NoDict), "id", <<"unknown">>)) \o <<"\"", ">">>
        \o Get(Get(poap, "event", NoDict), "name", <<"Unknown Event">>)
        \o <<"<", "/a></strong>.</p><p><img src=\"">>
        \o Get(Get(poap, "event", NoDict), "image_url", <<"unknown">>)
        \o <<"\"", ImgSize, "<", "/p>">>

\* The item of _add_address_poap_item up to its link.
AddressItemBase(poap, address) ==
    [kind |-> "address",
     title |-> <<>>,
     author |-> address,
     description |-> AddressHtml(poap),
     guid |-> TokenUrl(Get(poap, "tokenId", <<>>)),
     link |-> TokenUrl(Get(poap, "tokenId", <<>>))]

\* Lines 427-432 for a truthy 'created', parsed being what the ladder gave.
AddressItemDated(poap, address, parsed, t) ==
    IF parsed.exc \notin {"none", "ValueError"}
    THEN [exc |-> parsed.exc, item |-> [kind |-> "address"]]
    ELSE [exc |-> "none",
          item |-> [kind |-> "address",
                    title |-> <<>>,
                    author |-> address,
                    description |-> AddressHtml(poap),
                    guid |-> TokenUrl(Get(poap, "tokenId", <<>>)),
                    link |-> TokenUrl(Get(poap, "tokenId", <<>>)),
                    pubDate |-> formatdate(IF parsed.exc = "none" THEN parsed.ts ELSE t)]]

\* _add_address_poap_item; t is the clock reading of line 432.  Without a
\* truthy 'created' the item gets no pubDate element.
add_address_poap_item(poap, address, t) ==
    IF ~HasStamp(poap, "created")
    THEN [exc |-> "none", item |-> AddressItemBase(poap, address)]
    ELSE AddressItemDated(poap, address, ParseAddressCreated(poap.created), t)

NoClaimYet == [exc |-> "none", found |-> FALSE, ts |-> 0, wall |-> 0]

\* if most_recent_claim is None or claim_date > most_recent_claim
Newer(best, r) ==
    IF ~best.found \/ r.ts > best.ts
    THEN [exc |-> "none", found |-> TRUE, ts |-> r.ts, wall |-> r.wall]
    ELSE best

\* The loop of lines 441-461 from claim i on, with the most recent claim
\* found so far: [exc, found, ts, wall].  A ValueError skips the claim.
RECURSIVE MostRecentClaim(_, _, _)
AfterClaimDate(poaps, i, best, r) ==
    IF r.exc = "ValueError" THEN MostRecentClaim(poaps, i + 1, best)
    ELSE IF r.exc # "none" THEN [exc |-> r.exc, found |-> FALSE, ts |-> 0, wall |-> 0]
    ELSE MostRecentClaim(poaps, i + 1, Newer(best, r))

MostRecentClaim(poaps, i, best) ==
    IF i > Len(poaps) THEN best
    ELSE IF ~HasStamp(poaps[i], "created") THEN MostRecentClaim(poaps, i + 1, best)
    ELSE AfterClaimDate(poaps, i, best, ParseInactivityCreated(poaps[i].created))

\* A week count with the operands of the difference swapped, which the
\* claim about monotonicity must tell apart from the program's.
WeeksUntil(tNow, most_recent_ts) == ((most_recent_ts - tNow) \div MinutesPerDay) \div 7

\* time_diff.days // 7 of lines 469-470
WeeksSince(tNow, most_recent_ts) == ((tNow - most_recent_ts) \div MinutesPerDay) \div 7

\* The item of lines 481-498.
InactivityItem(event_details, weeks_since_last_claim, wall, tPub) ==
    [kind |-> "inactivity",
     title |-> IF weeks_since_last_claim = INACTIVITY_THRESHOLD_WEEKS
               THEN <<"No POAP claims in the last ", ToString(weeks_since_last_claim),
                      " weeks.">>
               ELSE <<ToString(weeks_since_last_claim), " weeks with no claims">>,
     description |->
         <<"<p>There have been no new POAP claims for this event in ",
           ToString(weeks_since_last_claim),
           " weeks.</p><p>The event may be over. Consider unsubscribing from this feed if no further activity is expected.</p><p><em>Last claim was on ",
           ToString(wall),
           " UTC</em></p>">>,
     guid |-> InactiveUrl(EventIdText(event_details, "unknown"), weeks_since_last_claim),
     link |-> InactiveUrl(EventIdText(event_details, "unknown"), weeks_since_last_claim),
     pubDate |-> formatdate(tPub)]

\* The comparison with a strict bound, which the claim about the threshold
\* must tell apart from the program's.
ThresholdExceeded(weeks_since_last_claim) ==
    weeks_since_last_claim > INACTIVITY_THRESHOLD_WEEKS

\* if weeks_since_last_claim >= INACTIVITY_THRESHOLD_WEEKS
ThresholdReached(weeks_since_last_claim) ==
    weeks_since_last_claim >= INACTIVITY_THRESHOLD_WEEKS

\* Lines 463-500, most_recent_claim being what the loop over the claims gave.
AlertFor(event_details, most_recent_claim, tNow, tPub) ==
    IF most_recent_claim.exc # "none" THEN [exc |-> most_recent_claim.exc, items |-> <<>>]
    ELSE IF ~most_recent_claim.found THEN [exc |-> "none", items |-> <<>>]
    ELSE IF ThresholdReached(WeeksSince(tNow, most_recent_claim.ts))
    THEN [exc |-> "none",
          items |-> <<InactivityItem(event_details, WeeksSince(tNow, most_recent_claim.ts),
                                     most_recent_claim.wall, tPub)>>]
    ELSE [exc |-> "none", items |-> <<>>]

\* _check_and_add_inactivity_alert; tNow is the clock reading of line 468,
\* tPub that of line 498.  [exc, items], items holding no or one item.
check_and_add_inactivity_alert(event_details, poaps, tNow, tPub) ==
    IF poaps = <<>> THEN [exc |-> "none", items |-> <<>>]
    ELSE AlertFor(event_details, MostRecentClaim(poaps, 1, NoClaimYet), tNow, tPub)

\* The document _format_xml returns, chan and descs being the rewritten
\* descriptions of the channel and of the items.
Rendered(channel, items, chan, descs) ==
    IF chan.exc # "none" \/ \E i \in 1..Len(items) : descs[i].exc # "none"
    THEN [exc |-> "ValueError", xml |-> <<>>]
    ELSE [exc |-> "none",
          xml |-> [channel |-> [channel EXCEPT !.description = chan],
                   items |-> [i \in 1..Len(items) |->
                                 [items[i] EXCEPT !.description = descs[i]]]]]

\* _format_xml: every description element of the document (the channel's
\* and each item's) is rewritten by format_description; a ValueError of
\* any of them is the call's.
format_xml(channel, items) ==
    Rendered(channel, items, format_description(channel.description),
             [i \in 1..Len(items) |-> format_description(items[i].description)])

\* The first exception among a sequence of results, "none" if there is none.
FirstExc(results) ==
    IF \A i \in 1..Len(results) : results[i].exc = "none" THEN "none"
    ELSE results[CHOOSE i \in 1..Len(results) :
                    /\ results[i].exc # "none"
                    /\ \A j \in 1..(i - 1) : results[j].exc = "none"].exc

\* A feed whose building raised exc is the exception; otherwise the
\* rendered document.
Document(exc, channel, items) ==
    IF exc # "none" THEN [exc |-> exc, xml |-> <<>>] ELSE format_xml(channel, items)

\* The clock reading of the k-th place of a generation that reads the clock:
\* the clock is at clk.start and advances by clk.drift before place clk.cut.
Reading(clk, k) == IF k >= clk.cut THEN clk.start + clk.drift ELSE clk.start

\* An assembly that puts the notice before the claims, which the claim about
\* the order of the items must tell apart from the program's.
NoticeBeforeClaims(channel, first, claims, alert) ==
    Document(FirstExc(<<first>> \o claims \o <<alert>>), channel,
             <<first.item>> \o alert.items \o [i \in 1..Len(claims) |-> claims[i].item])

\* Lines 221-235, results being those of the description item, of the claim
\* items in order and of the inactivity check.
EventDocument(channel, first, claims, alert) ==
    Document(FirstExc(<<first>> \o claims \o <<alert>>), channel,
             <<first.item>> \o [i \in 1..Len(claims) |-> claims[i].item] \o alert.items)

\* Lines 214-235 for the event details and claims the two fetches gave.
EventFeed(event_details, poaps, clk) ==
    EventDocument(add_channel_metadata(event_details, Reading(clk, 1)),
                  add_event_description_item(event_details, Reading(clk, 2)),
                  [i \in 1..Len(poaps) |->
                      add_claim_item(poaps[i], event_details, Reading(clk, 2 + i))],
                  check_and_add_inactivity_alert(event_details, poaps,
                      Reading(clk, Len(poaps) + 3), Reading(clk, Len(poaps) + 4)))

\* The event details used when get_event_details raised.
FallbackDetails(event_id) ==
    [id |-> event_id,
     name |-> <<"POAP Event #", ToString(event_id)>>,
     description |-> <<"Event details unavailable">>]

\* generate_event_feed.  up is what the POAP API answers: details_failed
\* and poaps_failed tell whether the call raised, details and poaps are the
\* answers otherwise.  [exc, xml].
generate_event_feed(event_id, up, clk) ==
    EventFeed(IF up.details_failed THEN FallbackDetails(event_id) ELSE up.details,
              IF up.poaps_failed THEN <<>> ELSE up.poaps,
              clk)

\* poaps[:MAX_CLAIMS_COUNT]
Truncate(poaps) ==
    SubSeq(poaps, 1, IF Len(poaps) < MAX_CLAIMS_COUNT THEN Len(poaps) ELSE MAX_CLAIMS_COUNT)

\* Lines 244-259, results being those of the items in order.
AddressDocument(channel, results) ==
    Document(FirstExc(results), channel, [i \in 1..Len(results) |-> results[i].item])

\* Lines 244-259 for the collection the fetch gave.
AddressFeed(address, poaps, clk) ==
    AddressDocument(add_address_channel_metadata(address, Reading(clk, 1)),
                    [i \in 1..Len(poaps) |->
                        add_address_poap_item(poaps[i], address, Reading(clk, 1 + i))])

\* generate_address_feed.  up.poaps_failed tells whether get_address_poaps
\* raised; nothing in the generator catches it.  [exc, xml].
generate_address_feed(address, up, clk) ==
    IF up.poaps_failed THEN [exc |-> "RequestException", xml |-> <<>>]
    ELSE AddressFeed(address, Truncate(up.poaps), clk)

-----------------------------------------------------------------------------
(* CacheManager                                                            *)

\* get_cache_key: f"{feed_type}:{identifier}"
get_cache_key(feed_type, identifier) == <<feed_type, ":">> \o identifier

NoItem == [present |-> FALSE]

\* A lookup that still serves an entry aged exactly the cache duration,
\* which the claim about expiry must tell apart from the program's.
get_cached_data_inclusive(table, cache_key, t, read_failed) ==
    IF read_failed THEN [found |-> FALSE, data |-> <<>>]
    ELSE IF ~table[cache_key].present THEN [found |-> FALSE, data |-> <<>>]
    ELSE IF t - table[cache_key].cached_at <= CACHE_DURATION_MINUTES
    THEN [found |-> TRUE, data |-> table[cache_key].data]
    ELSE [found |-> FALSE, data |-> <<>>]

\* get_cached_data at clock reading t: the stored data if the item exists
\* and is younger than the cache duration; a ClientError of the read is
\* logged and gives None.  [found, data].
get_cached_data(table, cache_key, t, read_failed) ==
    IF read_failed THEN [found |-> FALSE, data |-> <<>>]
    ELSE IF ~table[cache_key].present THEN [found |-> FALSE, data |-> <<>>]
    ELSE IF t - table[cache_key].cached_at < CACHE_DURATION_MINUTES
    THEN [found |-> TRUE, data |-> table[cache_key].data]
    ELSE [found |-> FALSE, data |-> <<>>]

\* set_cached_data at clock reading t: a ClientError of the write is logged
\* and the table keeps what it held.
set_cached_data(table, cache_key, data, t, write_failed) ==
    IF write_failed THEN table
    ELSE [table EXCEPT ![cache_key] =
             [present |-> TRUE,
              data |-> data,
              cached_at |-> t,
              ttl |-> t + CACHE_DURATION_MINUTES]]

-----------------------------------------------------------------------------
(* lambda_handler                                                          *)

\* int(identifier): [exc, val]
ParseInt(identifier) ==
    IF identifier = <<"1", "2">> THEN [exc |-> "none", val |-> 12]
    ELSE [exc |-> "ValueError", val |-> 0]

JsonError(status, message) ==
    [statusCode |-> status,
     headers |-> [ContentType |-> "application/json"],
     body |-> [error |-> message]]

RssResponse(rss_xml) ==
    [statusCode |-> 200,
     headers |-> [ContentType |-> "application/rss+xml; charset=utf-8",
                  CacheControl |-> <<"max-age=", CACHE_DURATION_MINUTES * 60>>],
     body |-> rss_xml]

\* The handler's clock does not advance while it serves one request.
Steady(t) == [start |-> t, drift |-> 0, cut |-> 1]

Outcome(resp, table, fetched, wrote, hit) ==
    [response |-> resp, table |-> table, fetched |-> fetched, wrote |-> wrote, hit |-> hit]

\* Lines 570-604: the feed is cached and returned; a ValueError raised
\* inside the try block of the event branch is answered 400, any other
\* exception 500.
Generated(feed_type, cache_key, gen, env, table, t) ==
    IF gen.exc = "none"
    THEN Outcome(RssResponse(gen.xml),
                 set_cached_data(table, cache_key, [rss_xml |-> gen.xml], t, env.write_failed),
                 TRUE, ~env.write_failed, FALSE)
    ELSE IF feed_type = "event" /\ gen.exc = "ValueError"
    THEN Outcome(JsonError(400, "Event ID must be a number"), table, TRUE, FALSE, FALSE)
    ELSE Outcome(JsonError(500, "Internal server error"), table, TRUE, FALSE, FALSE)

\* Lines 566-581 for an event: int(identifier), then the generator.
EventBranch(cache_key, event_id, up, env, table, t) ==
    IF event_id.exc # "none"
    THEN Outcome(JsonError(400, "Event ID must be a number"), table, FALSE, FALSE, FALSE)
    ELSE Generated("event", cache_key, generate_event_feed(event_id.val, up, Steady(t)),
                   env, table, t)

\* Lines 555-596, cached_data being what the cache lookup gave.
Served(feed_type, identifier, cache_key, cached_data, up, env, table, t) ==
    IF cached_data.found
    THEN Outcome(RssResponse(cached_data.data.rss_xml), table, FALSE, FALSE, TRUE)
    ELSE IF feed_type = "event"
    THEN EventBranch(cache_key, ParseInt(identifier), up, env, table, t)
    ELSE Generated("address", cache_key, generate_address_feed(identifier, up, Steady(t)),
                   env, table, t)

\* Lines 551-553 and what follows, for a feed type and an identifier.
Looked(feed_type, identifier, cache_key, up, env, table, t) ==
    Served(feed_type, identifier, cache_key,
           get_cached_data(table, cache_key, t, env.read_failed), up, env, table, t)

\* What lambda_handler does with path_parts (the path stripped of '/' and
\* split at '/'), given what the POAP API answers (up) and whether the
\* cache read and write fail (env): the response, the table afterwards,
\* whether the POAP API was called, whether the table was written, and
\* whether the response came from the cache.
HandlerResult(path_parts, up, env, table, t) ==
    IF Len(path_parts) < 2
    THEN Outcome(JsonError(400, "Invalid path. Use /event/{id} or /address/{address}"),
                 table, FALSE, FALSE, FALSE)
    ELSE IF path_parts[1] \notin {"event", "address"}
    THEN Outcome(JsonError(400, "Feed type must be \"event\" or \"address\""),
                 table, FALSE, FALSE, FALSE)
    ELSE Looked(path_parts[1], path_parts[2], get_cache_key(path_parts[1], path_parts[2]),
                up, env, table, t)

-----------------------------------------------------------------------------
(* Upstream data                                                           *)

\* The longest list of records the POAP API answers with.
MaxRecords == 2

\* The number of times the clock advances.
MaxTicks == 3

Seqs(S, n) == UNION { [1..k -> S] : k \in 0..n }

Absent == [t |-> "absent", s |-> <<>>]
Garbage == JStr(<<"n", "/", "a">>)

FullDetails ==
    [id |-> 12, name |-> <<"E">>, description |-> <<"x">>, image_url |-> <<"u">>,
     start_date |-> JStr(<<"D_old", "Z">>)]

NoImageDetails ==
    [id |-> 12, name |-> <<"E">>, description |-> <<"x">>,
     start_date |-> JStr(<<"D_old", "Z">>)]

\* Event details: complete, without an image, with ']]>' in the
\* description, with an unparsable start date, with a numeric start date.
DetailsSet ==
    { FullDetails,
      NoImageDetails,
      [FullDetails EXCEPT !.description = <<"]", "]", ">">>],
      [FullDetails EXCEPT !.start_date = Garbage],
      [FullDetails EXCEPT !.start_date = JNum] }

ClaimBase(i) ==
    [id |-> <<ToString(100 + i)>>,
     owner |-> [id |-> <<"0", "x", "A", "b", "c", "d", "e", "f">>]]

\* The i-th claim of an event, created as the option says.
Claim(i, created) ==
    IF created = Absent THEN ClaimBase(i)
    ELSE [id |-> ClaimBase(i).id, owner |-> ClaimBase(i).owner, created |-> created]

ClaimList(options) == [i \in 1..Len(options) |-> Claim(i, options[i])]

CollectedEvent == [id |-> <<"12">>, name |-> <<"E">>, image_url |-> <<"u">>]

\* The i-th POAP of an address, created as the option says.
AddressPoap(i, created) ==
    IF created = Absent THEN [tokenId |-> <<ToString(100 + i)>>, event |-> CollectedEvent]
    ELSE [tokenId |-> <<ToString(100 + i)>>, event |-> CollectedEvent, created |-> created]

AddressList(options) == [i \in 1..Len(options) |-> AddressPoap(i, options[i])]

\* 'created' values of the records a request is answered with: a bare date,
\* text that is no date, a number.
CreatedSet == { JStr(<<"D_edge">>), Garbage, JNum }

\* Lists of up to MaxRecords records that carry the same 'created'.
Uniform(S) == { [i \in 1..k |-> c] : k \in 0..MaxRecords, c \in S }

NoDetails == [id |-> 0]

\* What the POAP API answers to the two calls of an event feed; a call
\* that raised has no answer.
EventUps ==
    { [details_failed |-> d = NoDetails, details |-> d,
       poaps_failed |-> o = <<Absent>>,
       poaps |-> IF o = <<Absent>> THEN <<>> ELSE ClaimList(o)] :
        d \in DetailsSet \cup {NoDetails}, o \in Uniform(CreatedSet) \cup {<<Absent>>} }

\* What the POAP API answers to the call of an address feed.
AddressUps ==
    { [poaps_failed |-> o = <<Absent>>,
       poaps |-> IF o = <<Absent>> THEN <<>> ELSE AddressList(o)] :
        o \in Uniform(CreatedSet) \cup {<<Absent>>} }

NoUp == [poaps_failed |-> FALSE, poaps |-> <<>>]

Paths ==
    { <<"">>, <<"feed", <<"1", "2">>>>, <<"event", <<"a", "b", "c">>>>,
      <<"event", <<"1", "2">>>>, <<"address", <<"1", "2">>>> }

Valid(path_parts) ==
    /\ Len(path_parts) >= 2
    /\ path_parts[1] \in {"event", "address"}
    /\ path_parts[1] = "event" => ParseInt(path_parts[2]).exc = "none"

UpsFor(path_parts) ==
    IF ~Valid(path_parts) THEN {NoUp}
    ELSE IF path_parts[1] = "event" THEN EventUps ELSE AddressUps

\* Whether the DynamoDB read and write of a request raise ClientError.
Envs == [read_failed : BOOLEAN, write_failed : BOOLEAN]

Healthy == [read_failed |-> FALSE, write_failed |-> FALSE]

CacheKeys == { get_cache_key(p[1], p[2]) : p \in { q \in Paths : Len(q) >= 2 } }

-----------------------------------------------------------------------------
(* The handler as a state machine                                          *)

NoRequest ==
    [path |-> <<>>, up |-> NoUp, env |-> Healthy,
     fetched |-> FALSE, wrote |-> FALSE, hit |-> FALSE, before |-> NoItem, at |-> 0]

NoResponse == [statusCode |-> 0, headers |-> [ContentType |-> ""], body |-> <<>>]

Idle == [phase |-> "idle"]

Init ==
    /\ now = StartNow
    /\ cache = [k \in CacheKeys |-> NoItem]
    /\ response = NoResponse
    /\ req = NoRequest
    /\ probe = Idle

\* One invocation of lambda_handler.  The state afterwards holds the
\* response, the table, and the request just served with what was observed
\* of it: whether the POAP API was called and with what answers, whether
\* the table was written, whether the cache answered, the entry the request
\* found and the instant it was served at.
lambda_handler(path_parts, up, env) ==
    \E r \in {HandlerResult(path_parts, up, env, cache, now)} :
        /\ response' = r.response
        /\ cache' = r.table
        /\ req' = [path |-> path_parts,
                   up |-> IF r.fetched THEN up ELSE NoUp,
                   env |-> env,
                   fetched |-> r.fetched, wrote |-> r.wrote, hit |-> r.hit,
                   before |-> IF Len(path_parts) >= 2
                                    /\ path_parts[1] \in {"event", "address"}
                              THEN cache[get_cache_key(path_parts[1], path_parts[2])]
                              ELSE NoItem,
                   at |-> now]
        /\ UNCHANGED <<now, probe>>

\* Requests of every shape against a healthy table, answered by the POAP
\* API in every way.
Next ==
    \E path_parts \in Paths :
        \E up \in UpsFor(path_parts) : lambda_handler(path_parts, up, Healthy)

Spec == Init /\ [][Next]_vars

-----------------------------------------------------------------------------
(* The cache over time                                                     *)

\* The clock advances by a third of the cache duration.
Tick ==
    /\ now + CACHE_DURATION_MINUTES \div 3
          <= StartNow + MaxTicks * (CACHE_DURATION_MINUTES \div 3)
    /\ now' = now + CACHE_DURATION_MINUTES \div 3
    /\ UNCHANGED <<cache, response, req, probe>>

PlainEventUp ==
    [details_failed |-> FALSE, details |-> FullDetails,
     poaps_failed |-> FALSE, poaps |-> ClaimList(<<JStr(<<"D_new", "Z">>)>>)]

PlainAddressUp ==
    [poaps_failed |-> FALSE, poaps |-> AddressList(<<JStr(<<"D_new", "Z">>)>>)]

PlainUp(path_parts) ==
    IF ~Valid(path_parts) THEN NoUp
    ELSE IF path_parts[1] = "event" THEN PlainEventUp ELSE PlainAddressUp

\* Requests of every shape as time passes, against a table whose reads and
\* writes may fail.
NextCache ==
    \/ Tick
    \/ \E path_parts \in Paths, env \in Envs :
          lambda_handler(path_parts, PlainUp(path_parts), env)

SpecCache == Init /\ [][NextCache]_vars

-----------------------------------------------------------------------------
(* Two generations of one event feed                                       *)

\* 'created' values of the claims of a generated feed: six weeks old, about
\* to turn four weeks old (Z and UTC suffix), 100 minutes old (in another
\* timezone and bare), no date, and none at all.
FeedCreated ==
    { JStr(<<"D_old", "Z">>), JStr(<<"D_edge", "Z">>), JStr(<<"D_edge", "U", "T", "C">>),
      JStr(<<"D_new", "+", "o0200">>), JStr(<<"D_new">>), Garbage, Absent }

FeedUps ==
    { [details_failed |-> FALSE, details |-> FullDetails,
       poaps_failed |-> FALSE, poaps |-> ClaimList(o)] : o \in Seqs(FeedCreated, MaxRecords) }
    \cup { [details_failed |-> FALSE, details |-> FullDetails,
            poaps_failed |-> TRUE, poaps |-> <<>>],
           [details_failed |-> TRUE, details |-> NoDetails,
            poaps_failed |-> FALSE, poaps |-> <<>>] }

\* How long the clock may advance in one step between two generations.
Waits == { CACHE_DURATION_MINUTES, MinutesPerWeek }

NoFeed == [at |-> 0, feed |-> [exc |-> "none", xml |-> <<>>]]

InitFeed ==
    /\ now = StartNow
    /\ cache = [k \in CacheKeys |-> NoItem]
    /\ response = NoResponse
    /\ req = NoRequest
    /\ probe \in { [phase |-> "ready", up |-> up, waited |-> 0,
                    first |-> NoFeed, second |-> NoFeed] : up \in FeedUps }

\* generate_event_feed is called for the first time.
GenerateFirst ==
    /\ probe.phase = "ready"
    /\ probe' = [probe EXCEPT !.phase = "first",
                              !.first = [at |-> now,
                                         feed |-> generate_event_feed(12, probe.up, Steady(now))]]
    /\ UNCHANGED <<now, cache, response, req>>

\* Time passes between the two generations.
Pass(d) ==
    /\ probe.phase = "first"
    /\ probe.waited < MaxTicks
    /\ now' = now + d
    /\ probe' = [probe EXCEPT !.waited = @ + 1]
    /\ UNCHANGED <<cache, response, req>>

\* generate_event_feed is called again, the POAP API answering as before.
GenerateSecond ==
    /\ probe.phase = "first"
    /\ probe' = [probe EXCEPT !.phase = "second",
                              !.second = [at |-> now,
                                          feed |-> generate_event_feed(12, probe.up, Steady(now))]]
    /\ UNCHANGED <<now, cache, response, req>>

NextFeed ==
    \/ GenerateFirst
    \/ \E d \in Waits : Pass(d)
    \/ GenerateSecond

SpecFeed == InitFeed /\ [][NextFeed]_vars

-----------------------------------------------------------------------------
(* Rendering a description                                                 *)

\* The longest upstream text rendered.
MaxTextLen == 5

Alphabet == {"&", "a", "m", "p", ";", "<"}

\* Upstream texts: every text over the alphabet, and the end of a CDATA
\* section.
Texts == Seqs(Alphabet, MaxTextLen) \cup { <<"]", "]", ">">> }

InitRender ==
    /\ now = StartNow
    /\ cache = [k \in CacheKeys |-> NoItem]
    /\ response = NoResponse
    /\ req = NoRequest
    /\ probe \in { [phase |-> "text", text |-> text] : text \in Texts }

\* The body the item builder made of the text, and what _format_xml made of
\* the body.
Shown(text, body) ==
    [phase |-> "rendered", text |-> text, body |-> body, out |-> format_description(body)]

\* The event-description item of an event whose description is the text is
\* built and rendered.
Render ==
    /\ probe.phase = "text"
    /\ probe' = Shown(probe.text, EventHtml([FullDetails EXCEPT !.description = probe.text]))
    /\ UNCHANGED <<now, cache, response, req>>

NextRender == Render

SpecRender == InitRender /\ [][NextRender]_vars

-----------------------------------------------------------------------------
(* The date ladders side by side                                           *)

Sites == {"event", "claim", "inactivity", "address"}

\* What follows the date-time body in a timestamp string.
Suffixes ==
    { <<"Z">>, <<"+", "o0000">>, <<"+", "o0200">>, <<"-", "o0200">>,
      <<"U", "T", "C">>, <<" ", "U", "T", "C">>, <<>> }

Stamps ==
    { JStr(<<b>> \o suffix) : b \in DOMAIN WallClock, suffix \in Suffixes }
        \cup { Garbage, JNum }

\* The ladder a site applies to a timestamp value.
Normalize(site, v) ==
    CASE site = "event" -> ParseEventDate(v)
      [] site = "claim" -> ParseClaimCreated(v)
      [] site = "inactivity" -> ParseInactivityCreated(v)
      [] site = "address" -> ParseAddressCreated(v)

InitDates ==
    /\ now = StartNow
    /\ cache = [k \in CacheKeys |-> NoItem]
    /\ response = NoResponse
    /\ req = NoRequest
    /\ probe \in { [phase |-> "stamp", v |-> v] : v \in Stamps }

\* A site consumes the timestamp.
NormalizeAt(site) ==
    /\ probe.phase = "stamp"
    /\ probe' = [phase |-> "parsed", v |-> probe.v, site |-> site,
                 out |-> Normalize(site, probe.v)]
    /\ UNCHANGED <<now, cache, response, req>>

NextDates == \E site \in Sites : NormalizeAt(site)

SpecDates == InitDates /\ [][NextDates]_vars

-----------------------------------------------------------------------------
(* Properties of the handler, checked under Spec                           *)

\* The request last served reached the generator of an event feed, of an
\* address feed.
EventGenerated == req.fetched /\ req.path[1] = "event"
AddressGenerated == req.fetched /\ req.path[1] = "address"

\* The timestamp shapes the specification supports: a date-time body that is
\* bare or followed by Z, by a +HH:MM offset or by UTC.
KnownPattern(v) ==
    /\ v.t = "str"
    /\ Len(v.s) >= 1
    /\ v.s[1] \in DOMAIN WallClock
    /\ Drop(v.s, 1) \in { <<>>, <<"Z">>, <<"U", "T", "C">> }
                            \cup { <<"+", o>> : o \in DOMAIN OffsetMinutes }

\* The UTC instant a timestamp of a supported shape denotes.
Instant(v) ==
    IF Len(v.s) = 3 /\ v.s[2] = "+" THEN WallClock[v.s[1]] - OffsetMinutes[v.s[3]]
    ELSE WallClock[v.s[1]]

WellStamped(poaps) == \A i \in 1..Len(poaps) : KnownPattern(poaps[i].created)

\* C1: an event request whose details fetch fails and whose claims fetch
\* gives n >= 1 records (here with well-formed timestamps) is answered 200
\* with the placeholder description item followed by the n claim items.
C1_ClaimsSurviveMissingDetails ==
    ( /\ EventGenerated
      /\ req.up.details_failed
      /\ ~req.up.poaps_failed
      /\ Len(req.up.poaps) >= 1
      /\ WellStamped(req.up.poaps) )
    => /\ response.statusCode = 200
       /\ Len(response.body.items) >= 1 + Len(req.up.poaps)
       /\ response.body.items[1].title = <<"POAP Event #", "12", " ", "Event Details">>
       /\ \A i \in 1..Len(req.up.poaps) :
             response.body.items[i + 1].guid = TokenUrl(req.up.poaps[i].id)

\* C2: for both feed kinds, when the primary fetch (event claims, address
\* collection) fails, the request is answered 200 with a feed that holds no
\* claim or collection item.  The event details are the plain ones, or
\* their fetch failed too.
C2_PrimaryFetchFailureGivesEmptyFeed ==
    ( \/ /\ EventGenerated
         /\ req.up.poaps_failed
         /\ req.up.details \in {FullDetails, NoImageDetails, NoDetails}
      \/ /\ AddressGenerated
         /\ req.up.poaps_failed )
    => /\ response.statusCode = 200
       /\ \A i \in 1..Len(response.body.items) :
             response.body.items[i].kind \notin {"claim", "address"}

\* C3: the handler answers 400 if and only if the request is structurally
\* invalid (fewer than two path segments, a feed kind other than event or
\* address, an event identifier that is no integer), and an exception of
\* the generation of a valid request is answered 500 with the generic body.
C3_BadRequestIffInvalid ==
    req # NoRequest
    => /\ response.statusCode = 400 <=> ~Valid(req.path)
       /\ (Valid(req.path) /\ response.statusCode # 200)
             => response = JsonError(500, "Internal server error")

\* The event details and the claims of the request raise nothing but what a
\* timestamp may raise.
PlainButStamps(up) ==
    /\ ~up.details_failed
    /\ ~up.poaps_failed
    /\ "image_url" \in DOMAIN up.details
    /\ up.details.description = <<"x">>

\* C9: a timestamp that matches no known pattern, whatever its value, in an
\* event date field or in a 'created' field, does not abort the generation:
\* the request is answered 200 and the pubDate of the item is the current
\* instant.
C9_UnparsableTimestampFallsBack ==
    /\ ( /\ EventGenerated
         /\ PlainButStamps(req.up)
         /\ \/ ~KnownPattern(req.up.details.start_date)
            \/ \E i \in 1..Len(req.up.poaps) : ~KnownPattern(req.up.poaps[i].created) )
       => /\ response.statusCode = 200
          /\ ~KnownPattern(req.up.details.start_date)
                => response.body.items[1].pubDate = formatdate(req.at)
          /\ \A i \in 1..Len(req.up.poaps) :
                ~KnownPattern(req.up.poaps[i].created)
                   => response.body.items[i + 1].pubDate = formatdate(req.at)
    /\ ( /\ AddressGenerated
         /\ ~req.up.poaps_failed
         /\ \E i \in 1..Len(req.up.poaps) : ~KnownPattern(req.up.poaps[i].created) )
       => /\ response.statusCode = 200
          /\ \A i \in 1..Len(req.up.poaps) :
                ~KnownPattern(req.up.poaps[i].created)
                   => response.body.items[i].pubDate = formatdate(req.at)

-----------------------------------------------------------------------------
(* Properties of the cache, checked under SpecCache                        *)

\* The request last served found an entry under its key that was younger
\* than 15 minutes.
FoundFresh ==
    /\ req # NoRequest
    /\ req.before.present
    /\ req.at - req.before.cached_at < 15

\* The stored text was returned with status 200 and max-age=900, the POAP
\* API was not called and the entry was not written.
AnsweredFromCache ==
    /\ response = [statusCode |-> 200,
                   headers |-> [ContentType |-> "application/rss+xml; charset=utf-8",
                                CacheControl |-> <<"max-age=", 900>>],
                   body |-> req.before.data.rss_xml]
    /\ ~req.fetched
    /\ ~req.wrote
    /\ cache[get_cache_key(req.path[1], req.path[2])] = req.before

\* C4 as stated: whenever an entry exists under the key of the request and is
\* younger than 15 minutes, the stored text is returned with status 200 and
\* max-age=900 without upstream fetch or cache write; an entry of 15 minutes
\* or more is never served.
C4_FreshEntryIsServed ==
    /\ FoundFresh => AnsweredFromCache
    /\ req.hit => FoundFresh

\* C4, amended: the same, provided the read of the entry does not fail (a
\* failed read is served as a miss).
C4_FreshEntryIsServedWhenRead ==
    /\ (FoundFresh /\ ~req.env.read_failed) => AnsweredFromCache
    /\ req.hit => FoundFresh

\* An entry written earlier is served.
C4_AgedEntryServed == req.hit /\ req.at > req.before.cached_at

-----------------------------------------------------------------------------
(* Properties of the generated event feed, checked under SpecFeed          *)

\* The generations made so far, each with the instant it was made at.
Made ==
    IF probe.phase = "ready" THEN {}
    ELSE IF probe.phase = "first" THEN {probe.first}
    ELSE {probe.first, probe.second}

\* The claim records the generations were made from.
Records == IF probe.up.poaps_failed THEN <<>> ELSE probe.up.poaps

\* The description item, one claim item per record in upstream order, and
\* at most the notice after them.
InOrder(items, poaps) ==
    /\ Len(items) \in {Len(poaps) + 1, Len(poaps) + 2}
    /\ items[1].kind = "event"
    /\ items[1].guid = DropUrl(<<"12">>)
    /\ \A i \in 1..Len(poaps) :
          /\ items[i + 1].kind = "claim"
          /\ items[i + 1].guid = TokenUrl(poaps[i].id)
    /\ Len(items) = Len(poaps) + 2 => items[Len(items)].kind = "inactivity"
    /\ poaps = <<>> => Len(items) = 1

\* C5: the items of an event feed generated from n claim records are the
\* event-description item, then one claim item per record in upstream
\* order, then at most one inactivity item; 1 + n or 1 + n + 1 items, and
\* exactly 1 when n = 0.
C5_ItemOrder ==
    \A g \in Made : g.feed.exc = "none" => InOrder(g.feed.xml.items, Records)

\* A feed of two claims that ends with the notice.
C5_TwoClaimsAndNotice ==
    \E g \in Made :
        /\ g.feed.exc = "none"
        /\ Len(Records) = 2
        /\ Len(g.feed.xml.items) = 4

\* The records whose timestamp is parsable, and the latest of their instants.
Parsable(poaps) ==
    { i \in 1..Len(poaps) : "created" \in DOMAIN poaps[i] /\ KnownPattern(poaps[i].created) }

MostRecent(poaps) ==
    CHOOSE m \in { Instant(poaps[i].created) : i \in Parsable(poaps) } :
        \A i \in Parsable(poaps) : Instant(poaps[i].created) <= m

\* floor(days(t - mostRecent) / 7)
WeeksAt(t, poaps) == ((t - MostRecent(poaps)) \div MinutesPerDay) \div 7

Notices(items) == { i \in 1..Len(items) : items[i].kind = "inactivity" }

BothNotify ==
    /\ Len(probe.first.feed.xml.items) = Len(Records) + 2
    /\ Len(probe.second.feed.xml.items) = Len(Records) + 2

\* C7: two generations of one event feed from the same upstream data give
\* the event-description item and every claim item the same guid, and give
\* the inactivity item the same guid exactly when weeksSince is the same.
C7_GuidStability ==
    ( /\ probe.phase = "second"
      /\ probe.first.feed.exc = "none"
      /\ probe.second.feed.exc = "none" )
    => /\ \A i \in 1..(Len(Records) + 1) :
             probe.first.feed.xml.items[i].guid = probe.second.feed.xml.items[i].guid
       /\ BothNotify
             => ( probe.first.feed.xml.items[Len(Records) + 2].guid
                     = probe.second.feed.xml.items[Len(Records) + 2].guid
                  <=> WeeksAt(probe.first.at, Records) = WeeksAt(probe.second.at, Records) )

\* Two generations a week apart whose notices have different guids.
C7_NoticeGuidsDiffer ==
    /\ probe.phase = "second"
    /\ Len(Records) >= 1
    /\ BothNotify
    /\ probe.first.feed.xml.items[Len(Records) + 2].guid
          # probe.second.feed.xml.items[Len(Records) + 2].guid

-----------------------------------------------------------------------------
(* Properties of the date ladders, checked under SpecDates                 *)

\* C8: at each of the four sites, a timestamp of each supported shape (Z,
\* +HH:MM, UTC suffix, bare) is normalized to the UTC instant it denotes, so
\* that the shapes of one wall-clock value give one instant at every site.
C8_SameInstantAtEverySite ==
    (probe.phase = "parsed" /\ KnownPattern(probe.v))
    => /\ probe.out.exc = "none"
       /\ probe.out.ts = Instant(probe.v)

-----------------------------------------------------------------------------
(* Properties of the renderer, checked under SpecRender                    *)

\* C10: the text read back from a rendered description is exactly the body
\* the item builder produced, a CDATA section without entity mangling, also
\* when the upstream text holds '&', '<' or '&amp;'.
C10_DescriptionRoundTrip ==
    (probe.phase = "rendered" /\ probe.out.exc = "none")
    => /\ probe.out.cdata
       /\ description_text(probe.out) = probe.body

-----------------------------------------------------------------------------
(* Feeds of many records                                                   *)

\* How many records more than MAX_CLAIMS_COUNT the POAP API may answer with.
MaxExtra == 2

\* The 'created' of the records of a long answer: a recent date, a date six
\* weeks old, or none.
ManyCreated == { JStr(<<"D_new", "Z">>), JStr(<<"D_old", "Z">>), Absent }

\* An answer of n records to the request of an event feed, of an address
\* feed; the limit passed to the POAP API does not bind what it answers.
ManyClaims(n, created) ==
    [details_failed |-> FALSE, details |-> FullDetails,
     poaps_failed |-> FALSE, poaps |-> ClaimList([i \in 1..n |-> created])]

ManyCollected(n, created) ==
    [poaps_failed |-> FALSE, poaps |-> AddressList([i \in 1..n |-> created])]

InitMany ==
    /\ now = StartNow
    /\ cache = [k \in CacheKeys |-> NoItem]
    /\ response = NoResponse
    /\ req = NoRequest
    /\ probe \in { [phase |-> "answer", kind |-> kind, n |-> n, created |-> created] :
                      kind \in {"event", "address"},
                      n \in 0..(MAX_CLAIMS_COUNT + MaxExtra),
                      created \in ManyCreated }

\* The feed made of an answer of probe.n records.
Fed(feed) == [probe EXCEPT !.phase = "fed"] @@ [feed |-> feed]

\* generate_event_feed for an answer of probe.n claims.
GenerateEventOfMany ==
    /\ probe.phase = "answer"
    /\ probe.kind = "event"
    /\ probe' = Fed(generate_event_feed(12, ManyClaims(probe.n, probe.created), Steady(now)))
    /\ UNCHANGED <<now, cache, response, req>>

\* generate_address_feed for an answer of probe.n collected POAPs.
GenerateAddressOfMany ==
    /\ probe.phase = "answer"
    /\ probe.kind = "address"
    /\ probe' = Fed(generate_address_feed(<<"1", "2">>,
                                          ManyCollected(probe.n, probe.created), Steady(now)))
    /\ UNCHANGED <<now, cache, response, req>>

NextMany == GenerateEventOfMany \/ GenerateAddressOfMany

SpecMany == InitMany /\ [][NextMany]_vars

\* The claim and collection items of a document.
RecordItems(items) == { i \in 1..Len(items) : items[i].kind \in {"claim", "address"} }

\* C11: in both feed kinds a generated document holds at most 20 claim or
\* collection items, whatever number of records the POAP API answered with.
C11_AtMostTwentyItems ==
    (probe.phase = "fed" /\ probe.feed.exc = "none")
    => Cardinality(RecordItems(probe.feed.xml.items)) <= 20

\* C11 for address feeds alone: a collection of more than 20 records is cut
\* to its first 20.
C11_AddressFeedCapped ==
    (probe.phase = "fed" /\ probe.kind = "address" /\ probe.feed.exc = "none")
    => /\ Cardinality(RecordItems(probe.feed.xml.items)) <= 20
       /\ Len(probe.feed.xml.items) = IF probe.n < 20 THEN probe.n ELSE 20

\* C12: every item of every generated feed (event-description, claim,
\* inactivity, address-collection) carries a guid, a link and a pubDate, and
\* the item of a record without timestamp field has the current instant as
\* its pubDate.
C12_ItemsCarryGuidLinkPubDate ==
    (probe.phase = "fed" /\ probe.feed.exc = "none")
    => \A i \in 1..Len(probe.feed.xml.items) :
          /\ {"guid", "link", "pubDate"} \subseteq DOMAIN probe.feed.xml.items[i]
          /\ (i \in RecordItems(probe.feed.xml.items) /\ probe.created = Absent)
                => probe.feed.xml.items[i].pubDate = formatdate(now)

\* C12 for event feeds alone (description, claim and inactivity items).
C12_EventItemsComplete ==
    (probe.phase = "fed" /\ probe.kind = "event" /\ probe.feed.exc = "none")
    => \A i \in 1..Len(probe.feed.xml.items) :
          /\ {"guid", "link", "pubDate"} \subseteq DOMAIN probe.feed.xml.items[i]
          /\ (i \in RecordItems(probe.feed.xml.items) /\ probe.created = Absent)
                => probe.feed.xml.items[i].pubDate = formatdate(now)

-----------------------------------------------------------------------------
(* The inactivity check over time, checked under SpecFeed                  *)

\* The latest claim the inactivity check finds among the records, and the
\* week count it computes from it at instant t.
LatestClaim == MostRecentClaim(Records, 1, NoClaimYet)
ComputedWeeks(t) == WeeksSince(t, LatestClaim.ts)

\* C13: with the claims held fixed and now1 <= now2, the week count computed
\* at now2 is not less than the one computed at now1, and a notice emitted
\* at now1 is emitted at now2 as well.
C13_MonotonicInTime ==
    ( /\ probe.phase = "second"
      /\ probe.first.feed.exc = "none"
      /\ probe.second.feed.exc = "none"
      /\ probe.first.at <= probe.second.at )
    => /\ LatestClaim.found
             => ComputedWeeks(probe.first.at) <= ComputedWeeks(probe.second.at)
       /\ Notices(probe.first.feed.xml.items) # {}
             => Notices(probe.second.feed.xml.items) # {}

\* A notice emitted at now1 and again, for more weeks, at a later now2.
C13_NoticeKeptLater ==
    /\ probe.phase = "second"
    /\ probe.first.at < probe.second.at
    /\ LatestClaim.found
    /\ ComputedWeeks(probe.first.at) < ComputedWeeks(probe.second.at)
    /\ Notices(probe.first.feed.xml.items) # {}
    /\ Notices(probe.second.feed.xml.items) # {}

-----------------------------------------------------------------------------
(* One generation under an advancing clock                                 *)

\* By how many minutes the clock may advance during one generation.
Drifts == {0, 1, CACHE_DURATION_MINUTES}

\* The clocks of a generation of up to MaxRecords claims: the clock starts at
\* StartNow and advances once, before one of the places that read it (the
\* channel, the description item, each claim item, the two places of the
\* inactivity check), or not at all.
Clocks ==
    {Steady(StartNow)}
        \cup { [start |-> StartNow, drift |-> d, cut |-> k] :
                  d \in Drifts \ {0}, k \in 2..(MaxRecords + 4) }

InitClock ==
    /\ now = StartNow
    /\ cache = [k \in CacheKeys |-> NoItem]
    /\ response = NoResponse
    /\ req = NoRequest
    /\ probe \in { [phase |-> "ready", up |-> up, clk |-> clk] :
                      up \in FeedUps, clk \in Clocks }

\* generate_event_feed reads the clock wherever the program calls
\* time.time() or datetime.now().
GenerateUnderClock ==
    /\ probe.phase = "ready"
    /\ probe' = [phase |-> "generated", up |-> probe.up, clk |-> probe.clk,
                 feed |-> generate_event_feed(12, probe.up, probe.clk)]
    /\ UNCHANGED <<now, cache, response, req>>

NextClock == GenerateUnderClock

SpecClock == InitClock /\ [][NextClock]_vars

\* The pubDate of the i-th item is, or falls back to, the current instant:
\* the description item of an event without date field, the claim item of a
\* record without parsable timestamp, the notice.
FromNow(items, i) ==
    \/ i = 1 /\ probe.up.details_failed
    \/ i \in 2..(Len(Records) + 1) /\ (i - 1) \notin Parsable(Records)
    \/ i = Len(Records) + 2

\* C14: within one generation 'now' is one instant, also when the clock
\* advances between the steps: the channel's lastBuildDate, every pubDate
\* that is or falls back to 'now', and the 'now' the week count of the
\* notice is computed from are the same instant.
C14_NowSampledOnce ==
    (probe.phase = "generated" /\ probe.feed.exc = "none")
    => /\ \A i \in 1..Len(probe.feed.xml.items) :
             FromNow(probe.feed.xml.items, i)
                => probe.feed.xml.items[i].pubDate = probe.feed.xml.channel.lastBuildDate
       /\ Len(probe.feed.xml.items) = Len(Records) + 2
             => probe.feed.xml.items[Len(Records) + 2].guid
                   = InactiveUrl(<<"12">>, WeeksAt(probe.feed.xml.channel.lastBuildDate.t, Records))

\* C14 when the clock stands still during the generation.
C14_OneInstantUnderSteadyClock ==
    (probe.phase = "generated" /\ probe.feed.exc = "none" /\ probe.clk.drift = 0)
    => /\ \A i \in 1..Len(probe.feed.xml.items) :
             FromNow(probe.feed.xml.items, i)
                => probe.feed.xml.items[i].pubDate = probe.feed.xml.channel.lastBuildDate
       /\ Len(probe.feed.xml.items) = Len(Records) + 2
             => probe.feed.xml.items[Len(Records) + 2].guid
                   = InactiveUrl(<<"12">>, WeeksAt(probe.feed.xml.channel.lastBuildDate.t, Records))

-----------------------------------------------------------------------------
(* The cache when the POAP API is down                                     *)

DownEventUp ==
    [details_failed |-> TRUE, details |-> NoDetails, poaps_failed |-> TRUE, poaps |-> <<>>]

DownAddressUp == [poaps_failed |-> TRUE, poaps |-> <<>>]

\* The POAP API answers a valid request plainly, or every call to it fails.
CacheUps(path_parts) ==
    IF ~Valid(path_parts) THEN {NoUp}
    ELSE IF path_parts[1] = "event" THEN {PlainEventUp, DownEventUp}
    ELSE {PlainAddressUp, DownAddressUp}

\* Requests of every shape as time passes, against a table whose reads and
\* writes may fail and a POAP API that may be down.
NextFrame ==
    \/ Tick
    \/ \E path_parts \in Paths, env \in Envs :
          \E up \in CacheUps(path_parts) : lambda_handler(path_parts, up, env)

SpecFrame == Init /\ [][NextFrame]_vars

\* The key of the request served by the step.
KeyServed == get_cache_key(req'.path[1], req'.path[2])

\* An entry changes only under the key of a request that missed the cache
\* and was answered 200, and then holds the body of that response; requests
\* answered 400 or 500 and cache hits change no entry.
WriteFrame ==
    /\ \A k \in CacheKeys :
          cache'[k] # cache[k]
          => /\ response'.statusCode = 200
             /\ req'.fetched
             /\ ~req'.hit
             /\ k = KeyServed
             /\ cache'[k].data.rss_xml = response'.body
    /\ (now' = now /\ response'.statusCode \in {400, 500}) => cache' = cache
    /\ (now' = now /\ req'.hit) => cache' = cache

\* The status the request of the step gets when the cache read and write of
\* the step do not fail.
StatusIfHealthy ==
    HandlerResult(req'.path, req'.up, Healthy, cache, now).response.statusCode

\* C15: the cache is written only by a request that misses it and is
\* answered 200, the text stored under the key being the body returned
\* (degraded feeds included); requests answered 400 or 500 and cache hits
\* leave the cache unchanged; and a failing cache read or write never
\* changes the status of the response.
C15_CacheFrame ==
    [][ /\ WriteFrame
        /\ now' = now => response'.statusCode = StatusIfHealthy ]_vars

\* C15 without its last part: the frame conditions of the cache write.
C15_CacheWriteFrame == [][WriteFrame]_vars

\* C15's last part for a failing write alone.
C15_WriteFailureKeepsStatus ==
    [][ (now' = now /\ ~req'.env.read_failed)
            => response'.statusCode = StatusIfHealthy ]_vars

====
